---- MODULE Spec2Model ----
(***************************************************************************)
(* SummAID backend: hybrid retrieval (POST /chat), summary generation     *)
(* (POST /summarize), the parallel structured-extraction pipeline, the    *)
(* model-fallback ladder, schema validation, and the stored summary under *)
(* concurrent POST /summarize and GET /summary.                           *)
(*                                                                         *)
(* Text is a sequence of tokens; one token stands for 100 characters, so  *)
(* the 200-character signature is two tokens and budgets are in chars.    *)
(*   "F"  a standalone FINDINGS / IMPRESSION / CONCLUSION line            *)
(*   "k"  an occurrence of the request keyword                            *)
(*   "a", "b"  other text                                                 *)
(***************************************************************************)
EXTENDS Naturals, Integers, Sequences, FiniteSets, TLC

VARIABLES
    patients,          \* TRUE iff the patients row exists
    reports,           \* report_ids of the patient
    report_chunks,     \* table report_chunks; chunk_id = index
    patient_summaries, \* the patient's row of table patient_summaries, or NoRow
    payload,           \* the request body the client sends (ChatRequest / SummarizeRequest)
    resp,              \* outcome of the last request handled
    toSend,            \* requests the client has still to send
    pctx,              \* pipeline: the context text of the run
    ppc,               \* pipeline: where _generate_structured_summary_parallel is
    task,              \* pipeline: the model calls, by name
    presult,           \* pipeline: the returned object and the path that built it
    gen,               \* ladder: the run of _generate_summary / _answer_question
    clients,           \* concurrent requests: where each handler is, and its locals
    log,               \* concurrent requests: the events so far, oldest first
    validation         \* schema: a candidate object and what validation made of it

storeVars == <<patients, reports, report_chunks>>
apiVars == <<patient_summaries, payload, resp, toSend>>
pipeVars == <<pctx, ppc, task, presult>>
vars == <<patients, reports, report_chunks, patient_summaries, payload, resp,
          toSend, pctx, ppc, task, presult, gen, clients, log, validation>>

\* ------------------------------------------------------------------ bounds
MaxStoreChunks == 2
MaxRequests == 1
MaxContextChunks == 2
MaxClients == 2

\* --------------------------------------------------------- program constants
SigLen == 200
MinContextChars == 500

\* ------------------------------------------------------------------- helpers
Min2(a, b) == IF a <= b THEN a ELSE b

Range(s) == {s[i] : i \in DOMAIN s}

\* every ordering of the set S as a sequence without repetition
Orderings(S) ==
    {s \in [1..Cardinality(S) -> S] : \A i, j \in DOMAIN s : i /= j => s[i] /= s[j]}

\* ---------------------------------------------------------------- the texts
Texts ==
    { <<>>,
      <<"F", "b">>,
      <<"F", "b", "k">>,
      <<"a", "a", "F">>,
      <<"a", "a", "k">>,
      <<"a", "a", "a", "a", "a", "a">> }

\* len(txt)
TextLen(txt) == 100 * Len(txt)

\* txt[:200]
Sig(txt) == SubSeq(txt, 1, Min2(SigLen \div 100, Len(txt)))

\* txt ~* '\n\s*FINDINGS\s*\n' OR ... IMPRESSION ... OR ... CONCLUSION ...
IsStructural(txt) == \E i \in DOMAIN txt : txt[i] = "F"

TextOf(cid) == report_chunks[cid].txt

\* rows of the patient's reports
PatientChunks == {c \in DOMAIN report_chunks : report_chunks[c].rid \in reports}

\* text of a list of chunk ids, joined
RECURSIVE JoinTexts(_)
JoinTexts(rows) ==
    IF rows = <<>> THEN <<>> ELSE TextOf(Head(rows)) \o JoinTexts(Tail(rows))

\* total text length of a list of chunk ids
RECURSIVE TotalChars(_)
TotalChars(rows) ==
    IF rows = <<>> THEN 0 ELSE TextLen(TextOf(Head(rows))) + TotalChars(Tail(rows))

\* ------------------------------------------------------------ request inputs
\* ChatRequest / SummarizeRequest: max_chunks >= 1, max_context_chars >= 500
NoKeywords == <<>>
Requests ==
    [max_chunks : {1, 2}, max_context_chars : {MinContextChars, 900},
     keywords : {NoKeywords, <<"k">>}]

\* ------------------------------------------------- retrieval in chat_with_patient
\* for row in cur.fetchall(): if row and row[2]: ...append(...)
NonEmptyRows(rows) == SelectSeq(rows, LAMBDA c : TextOf(c) /= <<>>)

\* StructuredRowSets with the LIMIT of the similarity query
StructuredRowSetsLimited ==
    LET all == {c \in PatientChunks : IsStructural(TextOf(c))}
    IN UNION {Orderings(S) :
                S \in {T \in SUBSET all :
                         Cardinality(T) = Min2(payload.max_chunks, Cardinality(all))}}

\* 3a. structured_sql has no ORDER BY: the matching rows in any order
StructuredRowSets ==
    Orderings({c \in PatientChunks : IsStructural(TextOf(c))})

\* 3b. ORDER BY c.report_vector <=> q.qv LIMIT max_chunks: the rows sorted by
\* distance, rows at the same distance in any order, cut to max_chunks
SimilarityRowSets(max_chunks) ==
    LET n == Min2(max_chunks, Cardinality(PatientChunks))
    IN {s \in UNION {Orderings(S) :
                       S \in {T \in SUBSET PatientChunks : Cardinality(T) = n}} :
          /\ \A i, j \in DOMAIN s :
                i < j => report_chunks[s[i]].dist <= report_chunks[s[j]].dist
          /\ \A c \in PatientChunks \ Range(s) : \A i \in DOMAIN s :
                report_chunks[s[i]].dist <= report_chunks[c].dist}

\* 3c. kw_sql (SELECT DISTINCT, no ORDER BY), only when payload.keywords:
\* the chunks with txt ILIKE '%kw%' for some kw of the request
KeywordRowSets(keywords) ==
    IF keywords = NoKeywords THEN {<<>>}
    ELSE Orderings({c \in PatientChunks :
                       \E n \in DOMAIN keywords :
                          \E i \in DOMAIN TextOf(c) : TextOf(c)[i] = keywords[n]})

\* DedupInto without the test on seen
RECURSIVE DedupIntoKeepAll(_, _)
DedupIntoKeepAll(merged, rows) ==
    IF rows = <<>> THEN merged
    ELSE DedupIntoKeepAll(Append(merged, Head(rows)), Tail(rows))

\* one of the three merge loops: sig = txt[:200]; if sig in seen: continue
RECURSIVE DedupInto(_, _)
DedupInto(merged, rows) ==
    IF rows = <<>> THEN merged
    ELSE LET c == Head(rows)
         IN IF \E i \in DOMAIN merged : Sig(TextOf(merged[i])) = Sig(TextOf(c))
            THEN DedupInto(merged, Tail(rows))
            ELSE DedupInto(Append(merged, c), Tail(rows))

\* Merge with the similarity rows first
MergeSimilarityFirst(structured, keyword, similarity) ==
    DedupInto(DedupInto(DedupInto(<<>>, similarity), keyword), structured)

\* 4. structured, then keywords, then similarity
Merge(structured, keyword, similarity) ==
    DedupInto(DedupInto(DedupInto(<<>>, structured), keyword), similarity)

\* TrimInto with >= for >
RECURSIVE TrimIntoStrict(_, _, _, _)
TrimIntoStrict(acc, total_chars, rows, max_context_chars) ==
    IF rows = <<>> THEN acc
    ELSE LET c == Head(rows)
         IN IF total_chars + TextLen(TextOf(c)) >= max_context_chars THEN acc
            ELSE TrimIntoStrict(Append(acc, c), total_chars + TextLen(TextOf(c)),
                                Tail(rows), max_context_chars)

\* if total_chars + len(txt) > payload.max_context_chars: break
RECURSIVE TrimInto(_, _, _, _)
TrimInto(acc, total_chars, rows, max_context_chars) ==
    IF rows = <<>> THEN acc
    ELSE LET c == Head(rows)
         IN IF total_chars + TextLen(TextOf(c)) > max_context_chars THEN acc
            ELSE TrimInto(Append(acc, c), total_chars + TextLen(TextOf(c)),
                          Tail(rows), max_context_chars)

BudgetTrim(merged, max_context_chars) == TrimInto(<<>>, 0, merged, max_context_chars)

\* =========================================================================
\* parallel_prompts.py: the structured-extraction pipeline
\* =========================================================================
\* The outcome of one model call as its caller sees it:
\*   ok       _call_llm_async returned the response text
\*   error    _call_llm_async returned a text starting with the error marker
\*   timeout  asyncio.wait_for raised TimeoutError after LLM_TIMEOUT
\* A bullet, like a text, is a sequence of word tokens; a response with bullets
\* is a sequence of lines [mark, words], mark being "-", the dot, or "none".
None == [null |-> TRUE]
MaxBullets == 5
MAX_CHUNK_SIZE == 8000

Failed(o) == o.kind /= "ok"

\* classification = result.lower().strip()
\* a classification response is a sequence of words, " " being white space
LowerWord(w) ==
    IF w = "Oncology" THEN "oncology"
    ELSE IF w = "Speech" THEN "speech"
    ELSE IF w = "General" THEN "general"
    ELSE IF w = "Completed" THEN "completed"
    ELSE IF w = "W1" THEN "w1"
    ELSE IF w = "CUDA" THEN "cuda"
    ELSE IF w = "OOM" THEN "oom"
    ELSE w

RECURSIVE StripLeft(_)
StripLeft(text) ==
    IF text /= <<>> /\ Head(text) = " " THEN StripLeft(Tail(text)) ELSE text

RECURSIVE StripRight(_)
StripRight(text) ==
    IF text /= <<>> /\ text[Len(text)] = " "
    THEN StripRight(SubSeq(text, 1, Len(text) - 1)) ELSE text

LowerStrip(text) == StripRight(StripLeft([i \in DOMAIN text |-> LowerWord(text[i])]))


\* sub in classification: the words do not share letters across word borders
HasWord(text, sub) ==
    \E i \in DOMAIN text :
        \/ text[i] = sub
        \/ sub = "audio" /\ text[i] = "audiology"

\* ClassifySpecialty with the speech heuristics tried first
ClassifySpecialtySpeechFirst(o) ==
    IF Failed(o) THEN "general"
    ELSE LET classification == LowerStrip(o.text)
         IN IF classification \in {<<"oncology">>, <<"speech">>, <<"general">>}
            THEN classification[1]
            ELSE IF HasWord(classification, "speech") \/ HasWord(classification, "audio")
            THEN "speech"
            ELSE IF HasWord(classification, "oncology") \/ HasWord(classification, "cancer")
            THEN "oncology"
            ELSE "general"

\* _classify_specialty, after the call
ClassifySpecialty(o) ==
    IF Failed(o) THEN "general"
    ELSE LET classification == LowerStrip(o.text)
         IN IF classification \in {<<"oncology">>, <<"speech">>, <<"general">>}
            THEN classification[1]
            ELSE IF HasWord(classification, "oncology") \/ HasWord(classification, "cancer")
            THEN "oncology"
            ELSE IF HasWord(classification, "speech") \/ HasWord(classification, "audio")
            THEN "speech"
            ELSE "general"

\* ExtractEvolution without the handler of the timeout
ExtractEvolutionUnhandled(o) ==
    IF o.kind = "error" THEN "Unable to generate medical narrative"
    ELSE o.text

\* _extract_evolution, after the call
ExtractEvolution(o) ==
    IF o.kind = "error" THEN "Unable to generate medical narrative"
    ELSE IF o.kind = "timeout" THEN "Error: Narrative generation timed out"
    ELSE o.text

\* the bullet parser shared by _extract_current_status and _extract_plan
RECURSIVE ParseInto(_, _)
ParseInto(bullets, lines) ==
    IF lines = <<>> THEN bullets
    ELSE LET l == Head(lines)
         IN IF l.mark \in {"-", "dot"}
            THEN ParseInto(Append(bullets, l.words), Tail(lines))
            ELSE IF bullets /= <<>>
            THEN ParseInto([bullets EXCEPT ![Len(bullets)] = @ \o l.words], Tail(lines))
            ELSE ParseInto(bullets, Tail(lines))

\* lines = [line.strip() for line in result.split('\n') if line.strip()]
ParseBullets(text) ==
    ParseInto(<<>>, SelectSeq(text, LAMBDA l : ~(l.mark = "none" /\ l.words = <<>>)))

FirstN(s, n) == SubSeq(s, 1, Min2(n, Len(s)))

StatusTimedOut == <<"Error: Status extraction timed out">>

\* _extract_current_status, after the call
ExtractCurrentStatus(o) ==
    IF o.kind = "error" THEN << <<"Status extraction failed">> >>
    ELSE IF o.kind = "timeout" THEN <<StatusTimedOut>>
    ELSE IF ParseBullets(o.text) /= <<>> THEN FirstN(ParseBullets(o.text), MaxBullets)
    ELSE << <<"Status information not available">> >>

PlanTimedOut == <<"Error: Plan extraction timed out">>
PlanNotAvailable == <<"Plan information not available">>

\* _extract_plan, after the call
ExtractPlan(o) ==
    IF o.kind = "error" THEN << <<"Plan extraction failed">> >>
    ELSE IF o.kind = "timeout" THEN <<PlanTimedOut>>
    ELSE IF ParseBullets(o.text) /= <<>> THEN FirstN(ParseBullets(o.text), MaxBullets)
    ELSE <<PlanNotAvailable>>

\* dates are the tokens "d1" < "d2"; 0 stands for no date
DateOf(w) == IF w = "d1" THEN 1 ELSE IF w = "d2" THEN 2 ELSE 0

\* _latest_context_date
LatestContextDate(context) ==
    IF \E i \in DOMAIN context : DateOf(context[i]) > 0
    THEN CHOOSE d \in {DateOf(context[i]) : i \in DOMAIN context} :
            \A i \in DOMAIN context : DateOf(context[i]) <= d
    ELSE 0

\* _has_completion_keywords
HasCompletionKeywords(b) ==
    \E i \in DOMAIN b :
        LowerWord(b[i]) \in {"completed", "done", "performed", "post-op",
                             "postoperative", "received"}

\* _is_past_dated
IsPastDated(b, latest_date) ==
    /\ latest_date /= 0
    /\ \E i \in DOMAIN b : DateOf(b[i]) > 0 /\ DateOf(b[i]) < latest_date

\* x in y, on strings
IsSubstring(x, y) ==
    /\ Len(x) <= Len(y)
    /\ \E i \in 0..(Len(y) - Len(x)) : SubSeq(y, i + 1, i + Len(x)) = x

\* s.lower()
Lower(text) == [i \in DOMAIN text |-> LowerWord(text[i])]

\* is_duplicate
IsDuplicate(b, current_status) ==
    \E n \in DOMAIN current_status :
        \/ IsSubstring(Lower(b), Lower(current_status[n]))
        \/ IsSubstring(Lower(current_status[n]), Lower(b))

\* ApplyTemporalSafetyFilters without the test on past dates
ApplyTemporalSafetyFiltersUndated(plan, current_status, context) ==
    LET safe == SelectSeq(plan, LAMBDA b :
                    /\ b /= <<>>
                    /\ ~HasCompletionKeywords(b)
                    /\ ~IsDuplicate(b, current_status))
    IN IF safe /= <<>> THEN FirstN(safe, MaxBullets) ELSE <<PlanNotAvailable>>

\* _apply_temporal_safety_filters
ApplyTemporalSafetyFilters(plan, current_status, context) ==
    LET latest_date == LatestContextDate(context)
        safe == SelectSeq(plan, LAMBDA b :
                    /\ b /= <<>>
                    /\ ~HasCompletionKeywords(b)
                    /\ ~IsPastDated(b, latest_date)
                    /\ ~IsDuplicate(b, current_status))
    IN IF safe /= <<>> THEN FirstN(safe, MaxBullets) ELSE <<PlanNotAvailable>>

\* ------------------------------------------------------------ JSON values
\* null is None, a string [str |-> s], an array [list |-> <<...>>], an object
\* a record of its members; numbers are integers (size_cm in tenths of a cm).
JStr(v) == [str |-> v]
JList(v) == [list |-> v]
EmptyObject == [k \in {} |-> None]

\* The text of a specialty response is a sequence of tokens: the braces, prose,
\* and the members of an object written as well-formed JSON.
Tok(t) == [t |-> t]
Members(obj) == [t |-> "members", obj |-> obj]

\* result.find('{'), 1-based, 0 for not found
Find(result, ch) ==
    IF \E i \in DOMAIN result : result[i].t = ch
    THEN CHOOSE i \in DOMAIN result :
            result[i].t = ch /\ \A j \in 1..(i - 1) : result[j].t /= ch
    ELSE 0

\* result.rfind('}'), 1-based, 0 for not found
RFind(result, ch) ==
    IF \E i \in DOMAIN result : result[i].t = ch
    THEN CHOOSE i \in DOMAIN result :
            result[i].t = ch /\ \A j \in (i + 1)..Len(result) : result[j].t /= ch
    ELSE 0

\* json.loads(json_str): ok with the object, or a JSONDecodeError
JsonLoads(json_str) ==
    IF json_str = <<Tok("{"), Tok("}")>> THEN [ok |-> TRUE, value |-> EmptyObject]
    ELSE IF /\ Len(json_str) = 3
            /\ json_str[1] = Tok("{")
            /\ json_str[2].t = "members"
            /\ json_str[3] = Tok("}")
    THEN [ok |-> TRUE, value |-> json_str[2].obj]
    ELSE [ok |-> FALSE, value |-> None]

\* ExtractSpecialtyData taking the first object written in the response
ExtractSpecialtyDataLenient(o) ==
    IF Failed(o) THEN None
    ELSE IF \E i \in DOMAIN o.text : o.text[i].t = "members"
    THEN o.text[Find(o.text, "members")].obj
    ELSE None

\* _extract_oncology_data / _extract_speech_data, after the call: the object
\* between the first '{' and the last '}', None when there is none or when
\* json.loads rejects it
ExtractSpecialtyData(o) ==
    IF Failed(o) THEN None
    ELSE LET start == Find(o.text, "{")
             end == RFind(o.text, "}")
         IN IF start > 0 /\ end > 0
            THEN LET data == JsonLoads(SubSeq(o.text, start, end))
                 IN IF data.ok THEN data.value ELSE None
            ELSE None

\* Assemble with the specialty data in both sections
AssembleBothSections(specialty, evolution, current_status, plan, specialty_data, context) ==
    [universal |-> [evolution |-> evolution,
                    current_status |-> current_status,
                    plan |-> ApplyTemporalSafetyFilters(plan, current_status, context)],
     oncology |-> specialty_data,
     speech |-> specialty_data,
     specialty |-> specialty,
     generated_at |-> "now"]

\* Step 4: structured_response
Assemble(specialty, evolution, current_status, plan, specialty_data, context) ==
    [universal |-> [evolution |-> evolution,
                    current_status |-> current_status,
                    plan |-> ApplyTemporalSafetyFilters(plan, current_status, context)],
     oncology |-> IF specialty = "oncology" THEN specialty_data ELSE None,
     speech |-> IF specialty = "speech" THEN specialty_data ELSE None,
     specialty |-> specialty,
     generated_at |-> "now"]

\* ------------------------------------------------------------- schemas.py
OncologyFields ==
    {"tumor_size_trend", "tnm_staging", "cancer_type", "grade", "biomarkers",
     "treatment_response", "pertinent_negatives"}
SpeechFields ==
    {"audiogram", "speech_scores", "hearing_loss_type", "hearing_loss_severity",
     "hearing_trend", "tinnitus", "balance_issues", "amplification",
     "pertinent_negatives"}
MeasurementFields == {"date", "size_cm", "location", "status"}

\* TumorSizeMeasurement.validate_date_format: 10 characters parsed as
\* %Y-%m-%d, 7 characters as %Y-%m, anything else rejected
ValidDate(v) == v \in {"2024-01-15", "2025-01-14", "2024-01"}

\* TumorSizeMeasurement: date and size_cm required, size_cm >= 0
TumorSizeMeasurementAccepts(p) ==
    /\ {"date", "size_cm"} \subseteq DOMAIN p
    /\ ValidDate(p.date)
    /\ p.size_cm >= 0

\* OncologyData: tumor_size_trend is a list (not Optional) of measurements
OncologyDataAccepts(d) ==
    "tumor_size_trend" \in DOMAIN d =>
        /\ "list" \in DOMAIN d.tumor_size_trend
        /\ \A i \in DOMAIN d.tumor_size_trend.list :
              TumorSizeMeasurementAccepts(d.tumor_size_trend.list[i])

\* SpeechScores: 0 <= srt_db <= 120, 0 <= wrs_percent <= 100
SpeechScoresAccepts(sc) ==
    /\ "srt_db" \in DOMAIN sc => (sc.srt_db >= 0 /\ sc.srt_db <= 120)
    /\ "wrs_percent" \in DOMAIN sc => (sc.wrs_percent >= 0 /\ sc.wrs_percent <= 100)

\* SpeechData
SpeechDataAccepts(d) ==
    ("speech_scores" \in DOMAIN d /\ d.speech_scores /= None) =>
        SpeechScoresAccepts(d.speech_scores)

\* AIResponseSchema.model_validate succeeds: the universal fields are a string
\* and two lists of strings by construction, so only a specialty object with
\* out-of-range or ill-typed values is rejected
SchemaAccepts(structured_response) ==
    /\ structured_response.oncology /= None =>
          OncologyDataAccepts(structured_response.oncology)
    /\ structured_response.speech /= None =>
          SpeechDataAccepts(structured_response.speech)

\* model_dump(exclude_none=True) of a sub-model: the declared fields that are
\* set to something other than None (undeclared keys were ignored on validation)
DumpExcludeNone(d, fields) ==
    [k \in {f \in DOMAIN d \cap fields : d[f] /= None} |-> d[k]]

\* ... of a validated OncologyData: tumor_size_trend has default_factory=list,
\* so it is dumped as [] when the object did not set it
OncologyDump(d) ==
    LET kept == DumpExcludeNone(d, OncologyFields)
    IN [k \in DOMAIN kept \cup {"tumor_size_trend"} |->
          IF k = "tumor_size_trend"
          THEN IF k \in DOMAIN kept
               THEN JList([i \in DOMAIN kept[k].list |->
                              [f \in DOMAIN kept[k].list[i] \cap MeasurementFields |->
                                  kept[k].list[i][f]]])
               ELSE JList(<<>>)
          ELSE kept[k]]

\* validated.model_dump_json(exclude_none=True): the schema's fields, the ones
\* that are None left out
ModelDumpExcludeNone(structured_response) ==
    LET validated == [universal |-> structured_response.universal,
                      oncology |-> IF structured_response.oncology = None THEN None
                                   ELSE OncologyDump(structured_response.oncology),
                      speech |-> IF structured_response.speech = None THEN None
                                 ELSE DumpExcludeNone(structured_response.speech,
                                                      SpeechFields),
                      cardiology |-> None,
                      patient_id |-> None]
        kept == {k \in DOMAIN validated : validated[k] /= None}
    IN [k \in kept \cup {"generated_at", "specialty"} |->
           IF k = "generated_at" THEN structured_response.generated_at
           ELSE IF k = "specialty" THEN structured_response.specialty
           ELSE validated[k]]

\* ValidateOrFallback returning the dump whatever the validation said
ValidateOrFallbackAlwaysDump(structured_response) ==
    ModelDumpExcludeNone(structured_response)

\* Step 5: the validated dump, or the unvalidated object as it is
ValidateOrFallback(structured_response) ==
    IF SchemaAccepts(structured_response)
    THEN ModelDumpExcludeNone(structured_response)
    ELSE structured_response

\* TopLevelFallback with a universal section of the narrative alone
TopLevelFallbackNarrativeOnly(exc) ==
    [universal |->
        [evolution |-> IF exc = "TimeoutError"
                       THEN "Medical summary generation timed out"
                       ELSE "Medical summary generation failed"],
     specialty |-> "general"]

\* the two top-level fallbacks (except asyncio.TimeoutError / except Exception)
TopLevelFallback(exc) ==
    [universal |->
        [evolution |-> IF exc = "TimeoutError"
                       THEN "Medical summary generation timed out"
                       ELSE "Medical summary generation failed",
         current_status |-> IF exc = "TimeoutError"
                            THEN << <<"Data extraction timed out">> >>
                            ELSE << <<"Data extraction error">> >>,
         plan |-> IF exc = "TimeoutError"
                  THEN << <<"Review medical records manually">>,
                          <<"Retry summary generation">> >>
                  ELSE << <<"Review medical records manually">>,
                          <<"Contact system administrator">> >>],
     specialty |-> "general"]

\* ------------------------------------------------------------- model responses
Line(mark, words) == [mark |-> mark, words |-> words]
Ok(text) == [kind |-> "ok", text |-> text]
CallFailures == {[kind |-> "error", text |-> <<>>], [kind |-> "timeout", text |-> <<>>]}

ClsOutcomes ==
    {Ok(t) : t \in {<<"oncology">>, <<"speech">>, <<"general">>,
                    <<" ", "Speech", " ">>, <<"Oncology", ".">>,
                    <<"breast", " ", "cancer">>, <<"audiology">>,
                    <<"speech", " ", "oncology">>, <<"General", " ", "speech">>,
                    <<"unknown">>, <<>>}}
        \cup CallFailures
EvoOutcomes == {[kind |-> "ok", text |-> "narrative"],
                [kind |-> "error", text |-> ""], [kind |-> "timeout", text |-> ""]}
StatusOutcomes ==
    {Ok(<< Line("-", <<"w1">>) >>),
     Ok(<< Line("-", <<>>), Line("-", <<"w1">>), Line("none", <<"w3">>) >>),
     Ok(<<>>)} \cup CallFailures
PlanOutcomes ==
    {Ok(<< Line("-", <<"w2">>) >>),
     Ok(<< Line("-", <<"w1">>), Line("-", <<"w2", "d1">>), Line("dot", <<"done", "w2">>),
           Line("-", <<"w4">>) >>),
     Ok(<< Line("-", <<"W1">>), Line("-", <<"w5", "Completed">>) >>),
     Ok(<<>>)} \cup CallFailures

Prose == Tok("prose")
Object(obj) == <<Tok("{"), Members(obj), Tok("}")>>
Measurement(date, size_cm, status) ==
    [date |-> date, size_cm |-> size_cm, status |-> status]

\* oncology objects a response can carry
OncologyByBaseline ==
    [tumor_size_trend |->
        JList(<<Measurement("2024-01-15", 32, "STABLE"),
                Measurement("2024-01", 28, "STABLE"),
                Measurement("2025-01-14", 9, "PARTIAL RESPONSE")>>),
     tnm_staging |-> JStr("T2N0M0"), grade |-> None]
OncologyNullTrend == [tumor_size_trend |-> None, tnm_staging |-> JStr("T2N0M0")]
OncologyNoTrend == [tnm_staging |-> JStr("T2N0M0"), note |-> JStr("n")]

OncologyOutcomes ==
    {Ok(t) : t \in {<<Prose>>,
                    <<Tok("}"), Prose, Tok("{")>>,
                    <<Tok("{"), Prose, Tok("}")>>,
                    <<Tok("{"), Members(OncologyByBaseline)>>,
                    Object(OncologyByBaseline) \o Object(OncologyByBaseline),
                    <<Prose>> \o Object(OncologyByBaseline) \o <<Prose>>,
                    Object([tumor_size_trend |->
                               JList(<<Measurement("2024-01-15", 32, "STABLE"),
                                       Measurement("2025-01-14", 9, "STABLE")>>),
                            tnm_staging |-> JStr("T2N0M0")]),
                    Object([tumor_size_trend |->
                               JList(<<Measurement("2024-01-15", 0 - 1, "STABLE")>>)]),
                    Object(OncologyNullTrend),
                    Object(OncologyNoTrend)}}
        \cup CallFailures

\* speech objects a response can carry
SpeechInRange ==
    [speech_scores |-> [srt_db |-> 45, wrs_percent |-> 82],
     hearing_loss_type |-> JStr("Sensorineural"), amplification |-> None]
SpeechOutOfRange == [speech_scores |-> [srt_db |-> 45, wrs_percent |-> 150]]

SpeechOutcomes ==
    {Ok(t) : t \in {<<Prose>>,
                    <<Tok("{"), Prose, Tok("}")>>,
                    Object(SpeechInRange),
                    Object(SpeechOutOfRange)}}
        \cup CallFailures

Outcomes(t) ==
    IF t = "cls" THEN ClsOutcomes
    ELSE IF t = "evo" THEN EvoOutcomes
    ELSE IF t = "status" THEN StatusOutcomes
    ELSE IF t = "plan" THEN PlanOutcomes
    ELSE IF t = "oncology" THEN OncologyOutcomes
    ELSE SpeechOutcomes

\* what the coroutine of call t returns for the outcome o of its model call
CallValue(t, o) ==
    IF t = "cls" THEN ClassifySpecialty(o)
    ELSE IF t = "evo" THEN ExtractEvolution(o)
    ELSE IF t = "status" THEN ExtractCurrentStatus(o)
    ELSE IF t = "plan" THEN ExtractPlan(o)
    ELSE ExtractSpecialtyData(o)

\* --------------------------------- _generate_structured_summary_parallel, by step
Tasks == {"cls", "evo", "status", "plan", "oncology", "speech"}
UniversalTasks == {"evo", "status", "plan"}
Idle == [st |-> "idle", out |-> None, val |-> None]
NoResult == [path |-> "none", json |-> None]

\* asyncio.gather(*universal_tasks) returns once all three have returned
GatherDone == \A t \in UniversalTasks : task[t].st = "settled"

\* Steps 4 and 5 on the values the calls returned
Stage4(specialty_data) ==
    LET structured_response ==
            Assemble(task["cls"].val, task["evo"].val, task["status"].val,
                     task["plan"].val, specialty_data, pctx)
    IN [path |-> IF SchemaAccepts(structured_response) THEN "validated"
                 ELSE "unvalidated",
        json |-> ValidateOrFallback(structured_response)]

\* Step 1 is entered: specialty = await _classify_specialty(context, model)
StartClassify ==
    /\ ppc = "start"
    /\ task' = [task EXCEPT !["cls"].st = "running"]
    /\ ppc' = "await_cls"
    /\ UNCHANGED <<pctx, presult, storeVars, apiVars, gen, clients, log, validation>>

\* the model call of a running coroutine answers, fails or times out, and the
\* coroutine returns its value or its placeholder
Settle(t, o) ==
    /\ ppc /= "done"
    /\ task[t].st = "running"
    /\ task' = [task EXCEPT ![t] = [st |-> "settled", out |-> o, val |-> CallValue(t, o)]]
    /\ UNCHANGED <<pctx, ppc, presult, storeVars, apiVars, gen, clients, log, validation>>

\* the model service answers the call, with a text or with an error
AnswerCall ==
    \E t \in Tasks : \E o \in {x \in Outcomes(t) : x.kind /= "timeout"} : Settle(t, o)

\* TimeOutCall with no asyncio.wait_for around the specialty calls
TimeOutCallUniversalOnly ==
    \E t \in {"cls"} \cup UniversalTasks : Settle(t, [kind |-> "timeout", text |-> <<>>])

\* no answer within LLM_TIMEOUT: asyncio.wait_for raises TimeoutError in the
\* coroutine, whose handler returns the placeholder
TimeOutCall ==
    \E t \in Tasks :
        \E o \in {x \in Outcomes(t) : x.kind = "timeout"} : Settle(t, o)

SettleCall == AnswerCall \/ TimeOutCall

\* Step 2: the classification has returned; the three universal calls are
\* handed to asyncio.gather
StartUniversal ==
    /\ ppc = "await_cls"
    /\ task["cls"].st = "settled"
    /\ task' = [t \in Tasks |-> IF t \in UniversalTasks
                                THEN [task[t] EXCEPT !.st = "running"] ELSE task[t]]
    /\ ppc' = "await_gather"
    /\ UNCHANGED <<pctx, presult, storeVars, apiVars, gen, clients, log, validation>>

\* AfterGather with the specialty call started and not awaited
AfterGatherNotAwaited ==
    /\ ppc = "await_gather"
    /\ GatherDone
    /\ task' = IF task["cls"].val \in {"oncology", "speech"}
               THEN [task EXCEPT ![task["cls"].val].st = "running"] ELSE task
    /\ presult' = Stage4(None)
    /\ ppc' = "done"
    /\ UNCHANGED <<pctx, storeVars, apiVars, gen, clients, log, validation>>

\* Step 3: gather has returned; the specialty call is awaited, or, for a
\* general patient, Steps 4 and 5 follow at once
AfterGather ==
    /\ ppc = "await_gather"
    /\ GatherDone
    /\ IF task["cls"].val \in {"oncology", "speech"}
       THEN /\ task' = [task EXCEPT ![task["cls"].val].st = "running"]
            /\ ppc' = "await_spec"
            /\ UNCHANGED presult
       ELSE /\ presult' = Stage4(None)
            /\ ppc' = "done"
            /\ UNCHANGED task
    /\ UNCHANGED <<pctx, storeVars, apiVars, gen, clients, log, validation>>

\* Steps 4 and 5 once the specialty call has returned
AfterSpecialty ==
    /\ ppc = "await_spec"
    /\ task[task["cls"].val].st = "settled"
    /\ presult' = Stage4(task[task["cls"].val].val)
    /\ ppc' = "done"
    /\ UNCHANGED <<pctx, task, storeVars, apiVars, gen, clients, log, validation>>

\* an exception leaves the try block (nothing in the calls raises one: each
\* catches its own; it is the environment's, e.g. a MemoryError): one of the
\* two top-level handlers returns its fallback
TopLevelFailure ==
    \E exc \in {"TimeoutError", "Exception"} :
       /\ ppc /= "done"
       /\ presult' = [path |-> "fallback", json |-> TopLevelFallback(exc)]
       /\ ppc' = "done"
       /\ UNCHANGED <<pctx, task, storeVars, apiVars, gen, clients, log, validation>>

PipelineNext ==
    \/ StartClassify
    \/ SettleCall
    \/ StartUniversal
    \/ AfterGather
    \/ AfterSpecialty
    \/ TopLevelFailure

\* the pipeline from call to return, for the outcomes outs of its model calls
RunPipeline(outs, context) ==
    LET specialty == ClassifySpecialty(outs.cls)
        specialty_data == IF specialty \in {"oncology", "speech"}
                          THEN ExtractSpecialtyData(outs.spec) ELSE None
    IN ValidateOrFallback(
          Assemble(specialty, ExtractEvolution(outs.evo),
                   ExtractCurrentStatus(outs.status), ExtractPlan(outs.plan),
                   specialty_data, context))

\* =========================================================================
\* main.py: the two endpoints
\* =========================================================================
NoRow == [present |-> FALSE]

NoResp ==
    [endpoint |-> "none", status |-> 0, detail |-> "none",
     structured |-> <<>>, keyword |-> <<>>, similarity |-> <<>>,
     merged |-> <<>>, context |-> <<>>, genCalled |-> FALSE, genContext |-> <<>>,
     citations |-> <<>>, summary |-> None]

HttpError(endpoint, code, why) ==
    [NoResp EXCEPT !.endpoint = endpoint, !.status = code, !.detail = why]

\* ------------------------------------------------------------- POST /chat
\* ChatRetrieved without the 404 on an empty context
ChatRetrievedUnchecked(srows, krows, simrows, genOk) ==
    LET structured == NonEmptyRows(srows)
        keyword    == NonEmptyRows(krows)
        similarity == NonEmptyRows(simrows)
        merged     == Merge(structured, keyword, similarity)
        context    == BudgetTrim(merged, payload.max_context_chars)
    IN [NoResp EXCEPT !.endpoint = "chat", !.structured = structured,
           !.keyword = keyword, !.similarity = similarity,
           !.merged = merged, !.context = context,
           !.status = IF genOk THEN 200 ELSE 500,
           !.detail = IF genOk THEN "ok" ELSE "generation",
           !.genCalled = TRUE, !.genContext = context,
           !.citations = IF genOk THEN context ELSE <<>>]

\* the handler from the retrieval on, given the rows the three queries returned
\* and whether _answer_question got an answer from the model
ChatRetrieved(srows, krows, simrows, genOk) ==
    LET structured == NonEmptyRows(srows)
        keyword    == NonEmptyRows(krows)
        similarity == NonEmptyRows(simrows)
        merged     == Merge(structured, keyword, similarity)
        context    == BudgetTrim(merged, payload.max_context_chars)
        base == [NoResp EXCEPT !.endpoint = "chat", !.structured = structured,
                 !.keyword = keyword, !.similarity = similarity,
                 !.merged = merged, !.context = context]
    IN IF context = <<>>
       THEN [base EXCEPT !.status = 404, !.detail = "no_context"]
       ELSE IF ~genOk
       THEN [base EXCEPT !.status = 500, !.detail = "generation",
                         !.genCalled = TRUE, !.genContext = context]
       ELSE [base EXCEPT !.status = 200, !.detail = "ok",
                         !.genCalled = TRUE, !.genContext = context,
                         !.citations = context]

chat_with_patient ==
    \E embed \in {"ok", "error", "baddim"}, genOk \in BOOLEAN :
       /\ toSend > 0
       /\ toSend' = toSend - 1
       /\ resp' \in
            IF ~patients THEN {HttpError("chat", 404, "patient_not_found")}
            ELSE IF reports = {} THEN {HttpError("chat", 404, "no_reports")}
            ELSE IF embed /= "ok" THEN {HttpError("chat", 500, embed)}
            ELSE {ChatRetrieved(s, k, m, genOk) :
                     s \in StructuredRowSets,
                     k \in KeywordRowSets(payload.keywords),
                     m \in SimilarityRowSets(payload.max_chunks)}
       /\ UNCHANGED <<patient_summaries, payload, storeVars, pipeVars, gen, clients, log, validation>>

\* ---------------------------------------------------------- POST /summarize
\* reports.report_type, by report
ReportType(rid) == IF rid = 2 THEN "Audiology" ELSE "Radiology"

\* _infer_patient_type
InferPatientType(report_types) ==
    IF report_types \cap {"Speech Therapy", "Audiology"} /= {} THEN "speech"
    ELSE "oncology"

\* chunk_sql: ORDER BY c.report_id, c.chunk_id
SortedPatientChunks ==
    CHOOSE s \in Orderings(PatientChunks) :
        \A i, j \in DOMAIN s :
            i < j => \/ report_chunks[s[i]].rid < report_chunks[s[j]].rid
                     \/ /\ report_chunks[s[i]].rid = report_chunks[s[j]].rid
                        /\ s[i] < s[j]

\* generate_parallel_summary: a context over MAX_CHUNK_SIZE is cut into
\* windows of MAX_CHUNK_SIZE every MAX_CHUNK_SIZE // 2 characters, which
\* _generate_structured_summary_parallel joins again
SplitContext(full_context) ==
    IF TextLen(full_context) > MAX_CHUNK_SIZE
    THEN LET step == (MAX_CHUNK_SIZE \div 2) \div 100
             n == (Len(full_context) + step - 1) \div step
         IN [i \in 1..n |->
                SubSeq(full_context, (i - 1) * step + 1,
                       Min2(Len(full_context), (i - 1) * step + 2 * step))]
    ELSE <<full_context>>

RECURSIVE JoinChunks(_)
JoinChunks(chunks) ==
    IF chunks = <<>> THEN <<>> ELSE Head(chunks) \o JoinChunks(Tail(chunks))

\* summary_dict.get(key) / .get(key, default)
Get(obj, key, default) == IF key \in DOMAIN obj THEN obj[key] ELSE default

\* the model-call outcomes a summarize request is run with
SummarizeOutcomes ==
    {[cls |-> c, evo |-> [kind |-> "ok", text |-> "narrative"],
      status |-> Ok(<< Line("-", <<"w1">>) >>),
      plan |-> Ok(<< Line("-", <<"w2">>) >>), spec |-> sp] :
        c \in {Ok(<<"oncology">>), [kind |-> "timeout", text |-> <<>>]},
        sp \in {Ok(Object(OncologyByBaseline)), [kind |-> "timeout", text |-> <<>>]}}

summarize_patient ==
    \E role \in {"DOCTOR", "MA"}, outs \in SummarizeOutcomes, persistOk \in BOOLEAN :
       /\ toSend > 0
       /\ toSend' = toSend - 1
       /\ IF role = "DOCTOR"
          THEN /\ resp' = HttpError("summarize", 403, "doctor")
               /\ UNCHANGED patient_summaries
          ELSE IF ~patients
          THEN /\ resp' = HttpError("summarize", 404, "patient_not_found")
               /\ UNCHANGED patient_summaries
          ELSE IF reports = {}
          THEN /\ resp' = HttpError("summarize", 404, "no_reports")
               /\ UNCHANGED patient_summaries
          ELSE IF NonEmptyRows(SortedPatientChunks) = <<>>
          THEN /\ resp' = HttpError("summarize", 404, "no_chunks")
               /\ UNCHANGED patient_summaries
          ELSE LET chunk_data == NonEmptyRows(SortedPatientChunks)
                   full_context == JoinTexts(chunk_data)
                   summary_dict ==
                       RunPipeline(outs, JoinChunks(SplitContext(full_context)))
                   response_data ==
                       [universal |-> summary_dict.universal,
                        oncology |-> Get(summary_dict, "oncology", None),
                        speech |-> Get(summary_dict, "speech", None),
                        specialty |-> summary_dict.specialty,
                        generated_at |-> Get(summary_dict, "generated_at", "null"),
                        citations |-> chunk_data]
               IN /\ resp' = [NoResp EXCEPT !.endpoint = "summarize",
                                 !.status = 200, !.detail = "ok",
                                 !.context = chunk_data, !.genCalled = TRUE,
                                 !.genContext = chunk_data,
                                 !.citations = chunk_data,
                                 !.summary = response_data]
                  /\ patient_summaries' =
                        IF persistOk
                        THEN [present |-> TRUE, summary_text |-> response_data,
                              patient_type |->
                                  InferPatientType({ReportType(r) : r \in reports}),
                              chief_complaint |-> None,
                              citations |-> chunk_data]
                        ELSE patient_summaries
       /\ UNCHANGED <<payload, storeVars, pipeVars, gen, clients, log, validation>>

\* ------------------------------------------------------------------- the store
StoreInit ==
    /\ patients \in BOOLEAN
    /\ reports \in SUBSET {1}
    /\ ~patients => reports = {}
    /\ report_chunks \in UNION {[1..n -> [rid : reports, txt : Texts, dist : {1, 2}]] :
                                n \in 0..MaxStoreChunks}

PipeIdle ==
    /\ pctx = <<>>
    /\ ppc = "idle"
    /\ task = [t \in Tasks |-> Idle]
    /\ presult = NoResult

Init ==
    /\ StoreInit
    /\ patient_summaries = NoRow
    /\ payload \in Requests
    /\ resp = NoResp
    /\ toSend = MaxRequests
    /\ PipeIdle
    /\ gen = [pc |-> "idle"]
    /\ clients = <<>>
    /\ log = <<>>
    /\ validation = [pc |-> "idle"]

Next == chat_with_patient \/ summarize_patient

Spec == Init /\ [][Next]_vars

\* the same request sent again after the first
InitRepeat ==
    /\ StoreInit
    /\ patient_summaries = NoRow
    /\ payload \in Requests
    /\ resp = NoResp
    /\ toSend = MaxRequests + 1
    /\ PipeIdle
    /\ gen = [pc |-> "idle"]
    /\ clients = <<>>
    /\ log = <<>>
    /\ validation = [pc |-> "idle"]

SpecRepeat == InitRepeat /\ [][Next]_vars

\* --------------------------------------------- the pipeline on its own
PipelineInit ==
    /\ patients = FALSE
    /\ reports = {}
    /\ report_chunks = <<>>
    /\ patient_summaries = NoRow
    /\ payload \in {p \in Requests : p.max_chunks = 1 /\ p.keywords = NoKeywords
                                     /\ p.max_context_chars = MinContextChars}
    /\ resp = NoResp
    /\ toSend = 0
    /\ pctx \in {<<"a">>, <<"a", "d2">>}
    /\ ppc = "start"
    /\ task = [t \in Tasks |-> Idle]
    /\ presult = NoResult
    /\ gen = [pc |-> "idle"]
    /\ clients = <<>>
    /\ log = <<>>
    /\ validation = [pc |-> "idle"]

SpecPipeline == PipelineInit /\ [][PipelineNext]_vars

\* the event loop runs every coroutine that can run, and the timer of each
\* asyncio.wait_for fires; whether the model service answers is left open
SpecPipelineLive ==
    /\ PipelineInit
    /\ [][PipelineNext]_vars
    /\ WF_vars(StartClassify)
    /\ WF_vars(TimeOutCall)
    /\ WF_vars(StartUniversal)
    /\ WF_vars(AfterGather)
    /\ WF_vars(AfterSpecialty)

\* =========================================================================
\* main.py: _generate_summary / _answer_question, the model-fallback ladder
\*
\* Here a text is known by its place: the characters [from, to) of the join
\* of the context chunks, which are given by their lengths; the function has
\* been entered, joined is built and cut, nothing is tried yet.
\* =========================================================================
MAX_SAFE_CHARS == 18000
LLM_MODEL_NAME == "llama3:8b"
DefaultFallbacks ==
    <<"qwen2.5:7b-instruct-q4_K_M", "qwen2.5:3b-instruct-q4_K_M",
      "llama3.2:3b-instruct-q4_K_M">>

SpanLen(s) == s.to - s.from

\* s[-n:]
LastChars(s, n) == IF SpanLen(s) > n THEN [from |-> s.to - n, to |-> s.to] ELSE s

RECURSIVE SumLens(_)
SumLens(lens) == IF lens = <<>> THEN 0 ELSE Head(lens) + SumLens(Tail(lens))

\* len("\n\n".join(context_chunks))
JoinedLen(context_chunks) ==
    IF context_chunks = <<>> THEN 0
    ELSE SumLens(context_chunks) + 2 * (Len(context_chunks) - 1)

\* the place of chunk i in "\n\n".join(context_chunks)
ChunkSpan(context_chunks, i) ==
    LET start == JoinedLen(SubSeq(context_chunks, 1, i - 1)) + (IF i > 1 THEN 2 ELSE 0)
    IN [from |-> start, to |-> start + context_chunks[i]]

\* joined, after the cut to MAX_SAFE_CHARS
Joined(context_chunks) ==
    LET joined == [from |-> 0, to |-> JoinedLen(context_chunks)]
    IN IF SpanLen(joined) > MAX_SAFE_CHARS THEN LastChars(joined, MAX_SAFE_CHARS)
       ELSE joined

\* reduced = joined[-(MAX_SAFE_CHARS // 2):]
Reduced(joined) == LastChars(joined, MAX_SAFE_CHARS \div 2)

\* what one _try returns: the text of the model, or an error text: the body
\* of a non-200 answer of the model service, or network: / non-json: /
\* empty: and what was received
TryOutcomes ==
    {[ok |-> TRUE, text |-> t] : t \in {<<"answer1">>, <<"answer2">>}}
        \cup {[ok |-> FALSE, text |-> e] :
                 e \in {<<"CUDA", "error">>, <<"out", "of", "memory">>, <<"OOM">>,
                        <<"runner", "terminated">>, <<"network:", "refused">>,
                        <<"non-json:">>, <<"empty:">>}}

\* IsResourceError with network failures taken for resource failures
IsResourceErrorOrNetwork(primary) ==
    \E k \in {"cuda", "oom", "terminated", "memory", "network:"} :
        \E i \in DOMAIN primary : Lower(primary)[i] = k

\* any(k in lower_err for k in ["cuda", "oom", "terminated", "memory"]); the
\* words of an error text do not share letters across word borders
IsResourceError(primary) ==
    \E k \in {"cuda", "oom", "terminated", "memory"} :
        \E i \in DOMAIN primary : Lower(primary)[i] = k

\* one call of _try, as the ladder sees it; "num_ctx": 4096 if use_cpu else 8192
Attempt(model_name, use_cpu, ctx, o) ==
    [model |-> model_name, use_cpu |-> use_cpu,
     num_ctx |-> IF use_cpu THEN 4096 ELSE 8192,
     ctx |-> ctx, ok |-> o.ok, text |-> IF o.ok THEN o.text ELSE <<>>]

\* return res + note
GenReturn(text, note) == [kind |-> "return", text |-> text, note |-> note]
\* raise HTTPException(status_code=500, detail=f"{detail}: {primary}")
GenRaise(detail, primary) ==
    [kind |-> "raise", status |-> 500, detail |-> detail, primary |-> primary]

\* ok, primary = _try(LLM_MODEL_NAME, prompt)
TryPrimary ==
    /\ gen.pc = "primary"
    /\ \E o \in TryOutcomes :
          LET tried == [gen EXCEPT !.attempts =
                            Append(@, Attempt(LLM_MODEL_NAME, FALSE, gen.joined, o))]
          IN gen' =
               IF o.ok
               THEN [tried EXCEPT !.pc = "done", !.result = GenReturn(o.text, "none")]
               ELSE IF IsResourceError(o.text)
               THEN [tried EXCEPT !.pc = "cpu", !.primary = o.text]
               ELSE [tried EXCEPT !.pc = "done", !.primary = o.text,
                                  !.result = GenRaise("Generation error", o.text)]
    /\ UNCHANGED <<storeVars, apiVars, pipeVars, clients, log, validation>>

\* ok_cpu, res_cpu = _try(LLM_MODEL_NAME, prompt, use_cpu=True)
TryCpu ==
    /\ gen.pc = "cpu"
    /\ \E o \in TryOutcomes :
          LET tried == [gen EXCEPT !.attempts =
                            Append(@, Attempt(LLM_MODEL_NAME, TRUE, gen.joined, o))]
          IN gen' =
               IF o.ok
               THEN [tried EXCEPT !.pc = "done", !.result = GenReturn(o.text, "cpu")]
               ELSE [tried EXCEPT !.pc = IF gen.fallback_models = <<>>
                                         THEN "reduced" ELSE "fallbacks"]
    /\ UNCHANGED <<storeVars, apiVars, pipeVars, clients, log, validation>>

\* TryFallback leaving the loop after the first fallback model
TryFallbackOnce ==
    /\ gen.pc = "fallbacks"
    /\ \E o \in TryOutcomes :
          LET tried == [gen EXCEPT !.attempts =
                            Append(@, Attempt(gen.fallback_models[gen.fm], FALSE,
                                              gen.joined, o))]
          IN gen' =
               IF o.ok
               THEN [tried EXCEPT !.pc = "done", !.result = GenReturn(o.text, "smaller")]
               ELSE [tried EXCEPT !.pc = "reduced"]
    /\ UNCHANGED <<storeVars, apiVars, pipeVars, clients, log, validation>>

\* for fm in FALLBACK_MODELS: ok2, res2 = _try(fm, prompt)
TryFallback ==
    /\ gen.pc = "fallbacks"
    /\ \E o \in TryOutcomes :
          LET tried == [gen EXCEPT !.attempts =
                            Append(@, Attempt(gen.fallback_models[gen.fm], FALSE,
                                              gen.joined, o))]
          IN gen' =
               IF o.ok
               THEN [tried EXCEPT !.pc = "done", !.result = GenReturn(o.text, "smaller")]
               ELSE IF gen.fm < Len(gen.fallback_models)
               THEN [tried EXCEPT !.fm = @ + 1]
               ELSE [tried EXCEPT !.pc = "reduced"]
    /\ UNCHANGED <<storeVars, apiVars, pipeVars, clients, log, validation>>

\* ok3, res3 = _try(LLM_MODEL_NAME, reduced_prompt)
TryReduced ==
    /\ gen.pc = "reduced"
    /\ \E o \in TryOutcomes :
          LET reduced == Reduced(gen.joined)
              tried == [gen EXCEPT !.attempts =
                            Append(@, Attempt(LLM_MODEL_NAME, FALSE, reduced, o))]
          IN gen' =
               IF o.ok
               THEN [tried EXCEPT !.pc = "done", !.result = GenReturn(o.text, "reduced")]
               ELSE [tried EXCEPT !.pc = "done",
                        !.result = GenRaise("Generation GPU error; all fallbacks failed",
                                            gen.primary)]
    /\ UNCHANGED <<storeVars, apiVars, pipeVars, clients, log, validation>>

LadderNext == TryPrimary \/ TryCpu \/ TryFallback \/ TryReduced

LadderInit ==
    /\ patients = FALSE
    /\ reports = {}
    /\ report_chunks = <<>>
    /\ patient_summaries = NoRow
    /\ payload \in {p \in Requests : p.max_chunks = 1 /\ p.keywords = NoKeywords
                                     /\ p.max_context_chars = MinContextChars}
    /\ resp = NoResp
    /\ toSend = 0
    /\ PipeIdle
    /\ clients = <<>>
    /\ log = <<>>
    /\ validation = [pc |-> "idle"]
    /\ \E fn \in {"_generate_summary", "_answer_question"},
          n \in 1..MaxContextChunks,
          fallback_models \in {DefaultFallbacks, <<"qwen2.5:7b-instruct-q4_K_M">>} :
          \E context_chunks \in [1..n -> {100, 4000, 9000, 12000}] :
             gen = [fn |-> fn, context_chunks |-> context_chunks,
                    fallback_models |-> fallback_models,
                    joined |-> Joined(context_chunks),
                    pc |-> "primary", fm |-> 1, attempts |-> <<>>,
                    primary |-> <<>>, result |-> [kind |-> "none"]]

SpecLadder == LadderInit /\ [][LadderNext]_vars

\* =========================================================================
\* schemas.py: AIResponseSchema.model_validate and model_dump_json, on any
\* candidate object
\* =========================================================================
JNum(v) == [num |-> v]

\* a ValidationError
Invalid == [invalid |-> TRUE]

\* UniversalData: evolution is required, current_status and plan have
\* default_factory=list
UniversalDataValidate(u) ==
    IF "evolution" \notin DOMAIN u THEN Invalid
    ELSE [evolution |-> u.evolution,
          current_status |-> Get(u, "current_status", <<>>),
          plan |-> Get(u, "plan", <<>>)]

\* the fields of AudiogramFrequency and their aliases
AudiogramFrequencyFields ==
    {"freq_500hz", "freq_1000hz", "freq_2000hz", "freq_4000hz", "freq_8000hz"}
AliasOf(field) ==
    IF field = "freq_500hz" THEN "500Hz"
    ELSE IF field = "freq_1000hz" THEN "1000Hz"
    ELSE IF field = "freq_2000hz" THEN "2000Hz"
    ELSE IF field = "freq_4000hz" THEN "4000Hz"
    ELSE "8000Hz"

\* AudiogramFrequencyValidate without populate_by_name: a field is read under
\* its alias only
AudiogramFrequencyValidateAliasOnly(e) ==
    [f \in AudiogramFrequencyFields |->
        IF AliasOf(f) \in DOMAIN e THEN e[AliasOf(f)] ELSE None]

\* AudiogramFrequency: every field is read under its alias or, as
\* populate_by_name is set, under its name; other keys are ignored
AudiogramFrequencyValidate(e) ==
    [f \in AudiogramFrequencyFields |->
        IF AliasOf(f) \in DOMAIN e THEN e[AliasOf(f)]
        ELSE IF f \in DOMAIN e THEN e[f]
        ELSE None]

\* Audiogram
AudiogramValidate(a) ==
    [f \in {"left", "right", "test_date", "status"} |->
        IF f \notin DOMAIN a THEN None
        ELSE IF f \in {"left", "right"} /\ a[f] /= None
        THEN AudiogramFrequencyValidate(a[f])
        ELSE a[f]]

\* SpeechData; the scores keep the declared fields that are set
SpeechDataValidate(d) ==
    IF ~SpeechDataAccepts(d) THEN Invalid
    ELSE [f \in SpeechFields |->
            IF f \notin DOMAIN d THEN None
            ELSE IF f = "audiogram" /\ d[f] /= None THEN AudiogramValidate(d[f])
            ELSE IF f = "speech_scores" /\ d[f] /= None
            THEN [k \in DOMAIN d[f] \cap {"srt_db", "wrs_percent", "mcl_db", "ucl_db"} |->
                     d[f][k]]
            ELSE d[f]]

\* OncologyData; a measurement keeps the declared fields that are set
OncologyDataValidate(d) ==
    IF ~OncologyDataAccepts(d) THEN Invalid
    ELSE [f \in OncologyFields |->
            IF f = "tumor_size_trend"
            THEN IF f \in DOMAIN d
                 THEN JList([i \in DOMAIN d[f].list |->
                                [k \in DOMAIN d[f].list[i] \cap MeasurementFields |->
                                    d[f].list[i][k]]])
                 ELSE JList(<<>>)
            ELSE IF f \in DOMAIN d THEN d[f] ELSE None]

\* AIResponseSchema.model_validate(candidate): the model, or Invalid
AIResponseSchemaValidate(c) ==
    IF "universal" \notin DOMAIN c THEN Invalid
    ELSE LET universal == UniversalDataValidate(c.universal)
             oncology == IF Get(c, "oncology", None) = None THEN None
                         ELSE OncologyDataValidate(c.oncology)
             speech == IF Get(c, "speech", None) = None THEN None
                       ELSE SpeechDataValidate(c.speech)
         IN IF Invalid \in {universal, oncology, speech} THEN Invalid
            ELSE [universal |-> universal, oncology |-> oncology, speech |-> speech,
                  cardiology |-> None,
                  generated_at |-> Get(c, "generated_at", None),
                  patient_id |-> None,
                  specialty |-> Get(c, "specialty", None)]

\* the fields of a model that are not None, under their names
NotNone(model) == [f \in {k \in DOMAIN model : model[k] /= None} |-> model[f]]

\* v.model_dump_json(exclude_none=True): by field name, None left out, in
\* the sub-models too
ModelDumpJson(v) ==
    LET AudiogramDump(a) ==
            [f \in DOMAIN NotNone(a) |->
                IF f \in {"left", "right"} THEN NotNone(a[f]) ELSE a[f]]
        SpeechDataDump(s) ==
            [f \in DOMAIN NotNone(s) |->
                IF f = "audiogram" THEN AudiogramDump(s[f]) ELSE s[f]]
        kept == NotNone(v)
    IN [f \in DOMAIN kept |->
           IF f = "speech" THEN SpeechDataDump(kept[f])
           ELSE IF f = "oncology" THEN NotNone(kept[f])
           ELSE kept[f]]

\* ---------------------------------------------------------- the candidates
\* the candidate objects: each section may be missing; universal has any of
\* its keys; an ear of the audiogram is keyed by alias or by field name
CandidateObjects ==
    LET UniversalCandidates ==
            {[k \in K |-> IF k = "evolution" THEN "narrative"
                          ELSE IF k = "current_status" THEN cs ELSE pl] :
                K \in SUBSET {"evolution", "current_status", "plan"},
                cs \in {<<>>, << <<"w1">> >>}, pl \in {<<>>, << <<"w2">> >>}}
        EarCandidates ==
            {("500Hz" :> JNum(20)),
             ("500Hz" :> JNum(20)) @@ ("1000Hz" :> JNum(35)),
             ("500Hz" :> JNum(20)) @@ ("4000Hz" :> None),
             [freq_500hz |-> JNum(25), note |-> JStr("n")]}
        SpeechCandidates ==
            {[audiogram |-> [left |-> e]] : e \in EarCandidates}
                \cup {[audiogram |-> [left |-> e, right |-> None,
                                      test_date |-> JStr("2024-01-15")],
                       hearing_loss_type |-> JStr("Mixed")] : e \in EarCandidates}
                \cup {SpeechInRange, SpeechOutOfRange, None}
        OncologyCandidates == {OncologyByBaseline, OncologyNullTrend, OncologyNoTrend}
    IN {[k \in DOMAIN u \cup DOMAIN s \cup DOMAIN o |->
            IF k \in DOMAIN u THEN u[k] ELSE IF k \in DOMAIN s THEN s[k] ELSE o[k]] :
           u \in {EmptyObject} \cup {[universal |-> x] : x \in UniversalCandidates},
           s \in {EmptyObject} \cup {[speech |-> x] : x \in SpeechCandidates},
           o \in {EmptyObject} \cup {[oncology |-> x] : x \in OncologyCandidates}}

\* ------------------------------------------------ validate, dump, validate
\* validated = AIResponseSchema.model_validate(structured_response)
ModelValidate ==
    /\ validation.pc = "candidate"
    /\ LET v == AIResponseSchemaValidate(validation.candidate)
       IN validation' = IF v = Invalid THEN [validation EXCEPT !.pc = "rejected"]
                 ELSE [validation EXCEPT !.pc = "validated", !.v = v]
    /\ UNCHANGED <<storeVars, apiVars, pipeVars, gen, clients, log>>

\* validated.model_dump_json(exclude_none=True)
DumpJson ==
    /\ validation.pc = "validated"
    /\ validation' = [validation EXCEPT !.pc = "serialized", !.json = ModelDumpJson(validation.v)]
    /\ UNCHANGED <<storeVars, apiVars, pipeVars, gen, clients, log>>

\* AIResponseSchema.model_validate(json.loads(...)) of the serialized form
ReValidate ==
    /\ validation.pc = "serialized"
    /\ validation' = [validation EXCEPT !.pc = "revalidated", !.v2 = AIResponseSchemaValidate(validation.json)]
    /\ UNCHANGED <<storeVars, apiVars, pipeVars, gen, clients, log>>

ValidateNext == ModelValidate \/ DumpJson \/ ReValidate

ValidateInit ==
    /\ patients = FALSE
    /\ reports = {}
    /\ report_chunks = <<>>
    /\ patient_summaries = NoRow
    /\ payload \in {p \in Requests : p.max_chunks = 1 /\ p.keywords = NoKeywords
                                     /\ p.max_context_chars = MinContextChars}
    /\ resp = NoResp
    /\ toSend = 0
    /\ PipeIdle
    /\ gen = [pc |-> "idle"]
    /\ clients = <<>>
    /\ log = <<>>
    /\ validation \in {[pc |-> "candidate", candidate |-> c, v |-> Invalid,
                 json |-> EmptyObject, v2 |-> Invalid] : c \in CandidateObjects}

SpecValidate == ValidateInit /\ [][ValidateNext]_vars

\* =========================================================================
\* main.py: concurrent POST /summarize and GET /summary for one patient
\*
\* A handler is cut where it waits: summarize_patient at the model calls and
\* at its upsert, fetch_patient_summary at its SELECT and at its UPDATE.
\* =========================================================================
\* The citations of a request are [by, sections, chunks]: by is the request
\* that built them (0: a request served before citations had section tags),
\* sections whether the entries carry the key 'sections'.

\* response_data of summarize_patient
ResponseData(summary_dict, citations) ==
    [universal |-> summary_dict.universal,
     oncology |-> Get(summary_dict, "oncology", None),
     speech |-> Get(summary_dict, "speech", None),
     specialty |-> summary_dict.specialty,
     generated_at |-> Get(summary_dict, "generated_at", "null"),
     citations |-> citations]

\* Upsert that, on a conflict, updates summary_text and generated_at alone
UpsertSummaryOnly(row, response_data, patient_type, citations, now) ==
    IF row.present
    THEN [row EXCEPT !.summary_text = response_data, !.generated_at = now]
    ELSE [present |-> TRUE, summary_text |-> response_data,
          patient_type |-> patient_type, chief_complaint |-> None,
          citations |-> citations, generated_at |-> now]

\* INSERT INTO patient_summaries ... ON CONFLICT (patient_id) DO UPDATE SET
\* summary_text, patient_type, chief_complaint, citations, generated_at
Upsert(row, response_data, patient_type, citations, now) ==
    [present |-> TRUE, summary_text |-> response_data,
     patient_type |-> patient_type, chief_complaint |-> None,
     citations |-> citations, generated_at |-> now]

\* a row written before citations had section tags
LegacyRow ==
    LET citations == [by |-> 0, sections |-> FALSE, chunks |-> <<1>>]
        outs == CHOOSE o \in SummarizeOutcomes : o.cls.kind = "ok" /\ o.spec.kind = "ok"
    IN Upsert(NoRow, ResponseData(RunPipeline(outs, <<"F", "b">>), citations),
              "oncology", citations, 0)

\* summarize_patient up to response_data: the chunks are read, the pipeline
\* run, the citations built
SummarizeGenerate ==
    \E c \in DOMAIN clients, outs \in SummarizeOutcomes :
       /\ clients[c].op = "summarize"
       /\ clients[c].pc = "start"
       /\ LET chunk_data == NonEmptyRows(SortedPatientChunks)
              full_context == JoinTexts(chunk_data)
              citations == [by |-> c, sections |-> TRUE, chunks |-> chunk_data]
              summary_dict == RunPipeline(outs, JoinChunks(SplitContext(full_context)))
          IN clients' = [clients EXCEPT ![c].pc = "generated",
                            ![c].response_data = ResponseData(summary_dict, citations),
                            ![c].citations = citations]
       /\ UNCHANGED <<patient_summaries, payload, resp, toSend, log, storeVars,
                      pipeVars, gen, validation>>

\* summarize_patient from step 7: the upsert is committed, at
\* CURRENT_TIMESTAMP (the count of events), or fails and is logged;
\* response_data is returned either way
SummarizePersist ==
    \E c \in DOMAIN clients, persistOk \in BOOLEAN :
       /\ clients[c].op = "summarize"
       /\ clients[c].pc = "generated"
       /\ patient_summaries' =
             IF persistOk
             THEN Upsert(patient_summaries, clients[c].response_data,
                         InferPatientType({ReportType(r) : r \in reports}),
                         clients[c].citations, Len(log) + 1)
             ELSE patient_summaries
       /\ clients' = [clients EXCEPT ![c].pc = "done", ![c].status = 200]
       /\ log' = Append(log, [ev |-> "summarize", c |-> c, committed |-> persistOk])
       /\ UNCHANGED <<payload, resp, toSend, storeVars, pipeVars, gen, validation>>

\* fetch_patient_summary up to its UPDATE: the row is read; without a row 404;
\* citations without 'sections' get them and are to be written back
FetchSelect ==
    \E c \in DOMAIN clients :
       /\ clients[c].op = "fetch"
       /\ clients[c].pc = "start"
       /\ LET row == patient_summaries
          IN clients' =
               IF ~row.present
               THEN [clients EXCEPT ![c].pc = "done", ![c].status = 404]
               ELSE IF row.citations.sections
               THEN [clients EXCEPT ![c].pc = "done", ![c].status = 200,
                                    ![c].row = row, ![c].citations = row.citations]
               ELSE [clients EXCEPT ![c].pc = "changed", ![c].row = row,
                        ![c].citations = [row.citations EXCEPT !.sections = TRUE]]
       /\ log' = Append(log, [ev |-> "select", c |-> c, committed |-> FALSE])
       /\ UNCHANGED <<patient_summaries, payload, resp, toSend, storeVars, pipeVars,
                      gen, validation>>

\* fetch_patient_summary from "if changed": UPDATE patient_summaries SET
\* citations WHERE patient_id, committed or failed and logged; then the return
FetchUpgrade ==
    \E c \in DOMAIN clients, upgradeOk \in BOOLEAN :
       /\ clients[c].op = "fetch"
       /\ clients[c].pc = "changed"
       /\ patient_summaries' =
             IF upgradeOk /\ patient_summaries.present
             THEN [patient_summaries EXCEPT !.citations = clients[c].citations]
             ELSE patient_summaries
       /\ clients' = [clients EXCEPT ![c].pc = "done", ![c].status = 200]
       /\ log' = Append(log, [ev |-> "upgrade", c |-> c, committed |-> upgradeOk])
       /\ UNCHANGED <<payload, resp, toSend, storeVars, pipeVars, gen, validation>>

RegenerateNext == SummarizeGenerate \/ SummarizePersist

PersistNext == SummarizeGenerate \/ SummarizePersist \/ FetchSelect \/ FetchUpgrade

\* the patient has one report of one chunk; the requests have not started
ConcurrentInit(ops) ==
    /\ patients = TRUE
    /\ reports = {1}
    /\ report_chunks = <<[rid |-> 1, txt |-> <<"F", "b">>, dist |-> 1]>>
    /\ patient_summaries \in {NoRow, LegacyRow}
    /\ payload \in {p \in Requests : p.max_chunks = 1 /\ p.keywords = NoKeywords
                                     /\ p.max_context_chars = MinContextChars}
    /\ resp = NoResp
    /\ toSend = 0
    /\ PipeIdle
    /\ gen = [pc |-> "idle"]
    /\ validation = [pc |-> "idle"]
    /\ clients \in [1..MaxClients ->
                      {[op |-> op, pc |-> "start", response_data |-> None,
                        row |-> NoRow, citations |-> None, status |-> 0] : op \in ops}]
    /\ log = <<>>

\* concurrent POST /summarize requests for the patient
SpecRegenerate == ConcurrentInit({"summarize"}) /\ [][RegenerateNext]_vars

\* concurrent POST /summarize and GET /summary requests for the patient
SpecPersist == ConcurrentInit({"summarize", "fetch"}) /\ [][PersistNext]_vars

\* =========================================================================
\* Properties
\* =========================================================================
\* a chat request that got as far as the merge
ChatMerged == resp.endpoint = "chat" /\ resp.detail \in {"no_context", "generation", "ok"}

\* the candidates in merge order: structural, then keyword, then similarity
Candidates == resp.structured \o resp.keyword \o resp.similarity

\* C1: the context of a chat request is the longest prefix of the merged,
\* deduplicated list that fits max_context_chars: it is a prefix (each fragment
\* whole or absent), its total length is within the budget, the first fragment
\* left out would have exceeded the budget, and generation receives exactly it.
C1_BudgetPrefix ==
    ChatMerged =>
        /\ Len(resp.context) <= Len(resp.merged)
        /\ resp.context = SubSeq(resp.merged, 1, Len(resp.context))
        /\ TotalChars(resp.context) <= payload.max_context_chars
        /\ Len(resp.context) < Len(resp.merged) =>
              TotalChars(resp.context)
                + TextLen(TextOf(resp.merged[Len(resp.context) + 1]))
                  > payload.max_context_chars
        /\ resp.genCalled => resp.genContext = resp.context

\* a chat request whose context was cut by the budget after at least one fragment
C1_Witness ==
    /\ ChatMerged
    /\ resp.status = 200
    /\ Len(resp.context) < Len(resp.merged)

\* C2: no two fragments of the context share their first 200 characters, and a
\* kept fragment is the earliest candidate, in merge order, with its signature.
C2_Dedup ==
    ChatMerged =>
        /\ \A i, j \in DOMAIN resp.context :
              i /= j => Sig(TextOf(resp.context[i])) /= Sig(TextOf(resp.context[j]))
        /\ \A i \in DOMAIN resp.context : \A n \in DOMAIN Candidates :
              Sig(TextOf(Candidates[n])) = Sig(TextOf(resp.context[i])) =>
                 \E m \in 1..n : Candidates[m] = resp.context[i]
                    /\ \A q \in 1..(m - 1) :
                          Sig(TextOf(Candidates[q])) /= Sig(TextOf(resp.context[i]))

\* a candidate was dropped because another chunk with its signature came first
C2_Witness ==
    /\ ChatMerged
    /\ resp.status = 200
    /\ \E n \in DOMAIN Candidates : \E i \in DOMAIN resp.context :
          /\ Candidates[n] /= resp.context[i]
          /\ Sig(TextOf(Candidates[n])) = Sig(TextOf(resp.context[i]))

\* the pass a context fragment is owed to
Tier(c) ==
    IF c \in Range(resp.structured) THEN 1
    ELSE IF c \in Range(resp.keyword) THEN 2
    ELSE 3

C4_Deterministic ==
    [][(/\ resp.endpoint = "chat" /\ resp.status = 200
        /\ resp'.endpoint = "chat" /\ resp'.status = 200)
       => resp'.context = resp.context]_vars

\* the merged list fits the budget as a whole
WholeMergedFits == TotalChars(resp.merged) <= payload.max_context_chars

\* the chunks of the patient with a structural section header
StructuralChunks == {c \in PatientChunks : IsStructural(TextOf(c))}

\* C5 as stated: every fragment the structural pass selects is in the context
\* whenever the budget holds the whole merged list.
C5_EveryStructuralPresent ==
    (ChatMerged /\ WholeMergedFits) =>
        \A c \in StructuralChunks : c \in Range(resp.context)

\* C5 as amended: every fragment the structural pass selects is in the
\* context, or a structural fragment with the same first 200 characters is,
\* whenever the budget holds the whole merged list, whatever max_chunks is.
C5_StructuralPresentUpToSignature ==
    (ChatMerged /\ WholeMergedFits) =>
        \A c \in StructuralChunks :
            \E i \in DOMAIN resp.context :
                /\ resp.context[i] \in StructuralChunks
                /\ Sig(TextOf(resp.context[i])) = Sig(TextOf(c))

\* max_chunks = 1 cut a structural fragment out of the similarity rows, and the
\* fragment is in the context all the same
C5_Witness ==
    /\ ChatMerged
    /\ resp.status = 200
    /\ payload.max_chunks = 1
    /\ \E c \in StructuralChunks :
          /\ c \notin Range(resp.similarity)
          /\ resp.similarity /= <<>>
          /\ c \in Range(resp.context)

\* the request just handled found nothing to work on
NoUsableContent(r) ==
    \/ r.detail \in {"no_reports", "no_chunks", "no_context"}
    \/ /\ r.endpoint \in {"chat", "summarize"}
       /\ r.detail \notin {"doctor", "patient_not_found", "error", "baddim"}
       /\ \/ reports = {}
          \/ \A c \in PatientChunks : TextOf(c) = <<>>
          \/ r.context = <<>>

\* C6: a request that finds no reports, no non-empty chunk, or no fragment
\* within the budget ends in 404, without a call of the generation model and
\* without a write of patient_summaries; generation never sees an empty context.
C6_NoContentIsNotFound ==
    [][(toSend' /= toSend) =>
          /\ resp'.genCalled => resp'.genContext /= <<>>
          /\ NoUsableContent(resp') =>
                /\ resp'.status = 404
                /\ ~resp'.genCalled
                /\ patient_summaries' = patient_summaries]_vars

\* a chat request whose merged list was not empty and whose context is
C6_Witness ==
    /\ resp.endpoint = "chat"
    /\ resp.status = 404
    /\ resp.merged /= <<>>
    /\ resp.context = <<>>

\* C7: the fragments a summarize request gives to the pipeline, and cites, stay
\* within the request's max_context_chars.
C7_SummarizeWithinBudget ==
    (resp.endpoint = "summarize" /\ resp.status = 200) =>
        /\ TotalChars(resp.genContext) <= payload.max_context_chars
        /\ TotalChars(resp.citations) <= payload.max_context_chars

\* ------------------------------------------------------------ the pipeline
Returned == ppc = "done"
Assembled == Returned /\ presult.path \in {"validated", "unvalidated"}

\* C8: whatever path built it (validated dump, unvalidated object, top-level
\* fallback), the returned object has a universal section with the three keys
\* evolution, current_status and plan.
C8_UniversalComplete ==
    Returned =>
        /\ presult.path \in {"validated", "unvalidated", "fallback"}
        /\ "universal" \in DOMAIN presult.json
        /\ {"evolution", "current_status", "plan"} \subseteq DOMAIN presult.json.universal

\* the unvalidated object was returned after a schema failure
C8_Witness == Returned /\ presult.path = "unvalidated"

\* the specialty calls the classification asks for
SpecialtyCalls ==
    IF task["cls"].val \in {"oncology", "speech"} THEN {task["cls"].val} ELSE {}

\* C9: when calls of Stage 2 and Stage 3 fail or time out, every call still
\* settles and the summary is assembled; the field of a failed call holds a
\* placeholder of that field (None for the specialty section) and the field of
\* a successful call holds that call's result (the plan after its filter).
C9_IndependentFailures ==
    Assembled =>
        LET u == presult.json.universal
            evo == task["evo"].out
            status == task["status"].out
            plan == task["plan"].out
        IN /\ \A t \in UniversalTasks \cup SpecialtyCalls : task[t].st = "settled"
           /\ evo.kind = "timeout" => u.evolution = "Error: Narrative generation timed out"
           /\ evo.kind = "error" => u.evolution = "Unable to generate medical narrative"
           /\ evo.kind = "ok" => u.evolution = evo.text
           /\ status.kind = "timeout" =>
                 u.current_status = << <<"Error: Status extraction timed out">> >>
           /\ status.kind = "error" =>
                 u.current_status = << <<"Status extraction failed">> >>
           /\ (status.kind = "ok" /\ ParseBullets(status.text) /= <<>>) =>
                 u.current_status = FirstN(ParseBullets(status.text), MaxBullets)
           /\ plan.kind = "timeout" =>
                 u.plan \in { << <<"Error: Plan extraction timed out">> >>,
                              << <<"Plan information not available">> >> }
           /\ plan.kind = "error" =>
                 u.plan \in { << <<"Plan extraction failed">> >>,
                              << <<"Plan information not available">> >> }
           /\ (plan.kind = "ok" /\ ParseBullets(plan.text) /= <<>>) =>
                 u.plan = ApplyTemporalSafetyFilters(
                             FirstN(ParseBullets(plan.text), MaxBullets),
                             u.current_status, pctx)
           /\ \A t \in SpecialtyCalls :
                 /\ Failed(task[t].out) =>
                       Get(presult.json, task["cls"].val, None) = None
                 /\ (task[t].out.kind = "ok" /\ presult.path = "unvalidated") =>
                       Get(presult.json, t, None) = ExtractSpecialtyData(task[t].out)
                 /\ (task[t].out.kind = "ok" /\ presult.path = "validated"
                     /\ t \in DOMAIN presult.json) =>
                       \A k \in DOMAIN presult.json[t] \ {"tumor_size_trend"} :
                           presult.json[t][k] = ExtractSpecialtyData(task[t].out)[k]

\* a summary assembled from a timed-out narrative, a failed plan and a failed
\* specialty call next to a successful status call
C9_Witness ==
    /\ Assembled
    /\ task["evo"].out.kind = "timeout"
    /\ task["plan"].out.kind = "error"
    /\ task["status"].out.kind = "ok"
    /\ task["oncology"].st = "settled"
    /\ task["oncology"].out.kind = "timeout"
    /\ presult.json.universal.current_status = << <<"w1">> >>

\* C10: a summary is assembled only once the three Stage 2 calls and, for an
\* oncology or speech patient, the Stage 3 call have settled; no call is
\* pending then.
C10_Stage4AfterSettlement ==
    Assembled =>
        /\ \A t \in UniversalTasks \cup SpecialtyCalls : task[t].st = "settled"
        /\ \A t \in Tasks : task[t].st /= "running"

\* a summary assembled after a Stage 3 call
C10_Witness ==
    /\ Assembled
    /\ task["speech"].st = "settled"
    /\ task["cls"].val = "speech"


\* C11: the classification call does not block Stage 2: while it is awaited and
\* has not settled, the three universal extraction calls can be started.
C11_Stage2NotBlockedByClassification ==
    (ppc = "await_cls" /\ task["cls"].st = "running") => ENABLED StartUniversal

\* C12: the classification is one of oncology, speech, general: the trimmed,
\* lower-cased response when that is a label; else oncology when it contains
\* oncology or cancer; else speech when it contains speech or audio; else
\* general; and general on every error or timeout.
C12_ClassificationNormalized ==
    task["cls"].st = "settled" =>
        LET o == task["cls"].out
            v == task["cls"].val
            c == LowerStrip(o.text)
        IN /\ v \in {"oncology", "speech", "general"}
           /\ Failed(o) => v = "general"
           /\ ~Failed(o) =>
                 IF c \in {<<"oncology">>, <<"speech">>, <<"general">>} THEN v = c[1]
                 ELSE IF \E i \in DOMAIN c : c[i] \in {"oncology", "cancer"}
                 THEN v = "oncology"
                 ELSE IF \E i \in DOMAIN c : c[i] \in {"speech", "audio", "audiology"}
                 THEN v = "speech"
                 ELSE v = "general"
           /\ o = Ok(<<"Oncology", ".">>) => v = "oncology"
           /\ o = Ok(<<" ", "Speech", " ">>) => v = "speech"
           /\ o = Ok(<<"speech", " ", "oncology">>) => v = "oncology"
           /\ o = Ok(<<"unknown">>) => v = "general"

\* the response "Oncology." was classified
C12_Witness ==
    /\ task["cls"].st = "settled"
    /\ task["cls"].out = Ok(<<"Oncology", ".">>)
    /\ task["cls"].val = "oncology"

\* a section of the returned object that is there and not None
Populated(t) == t \in DOMAIN presult.json /\ presult.json[t] /= None

\* C13: a returned summary has at most one of the oncology and speech sections
\* populated, and a populated section is the one of the specialty tag; the
\* specialty call issued is the oncology one iff the classification is oncology,
\* the speech one iff it is speech, and none for general.
C13_OneSpecialtySection ==
    /\ \A t \in {"oncology", "speech"} :
          task[t].st /= "idle" => (task["cls"].st = "settled" /\ task["cls"].val = t)
    /\ Returned =>
          /\ ~(Populated("oncology") /\ Populated("speech"))
          /\ \A t \in {"oncology", "speech"} : Populated(t) => presult.json.specialty = t
    /\ Assembled =>
          \A t \in {"oncology", "speech"} : task[t].st /= "idle" <=> task["cls"].val = t

\* a speech summary with its speech section
C13_Witness ==
    /\ Assembled
    /\ presult.json.specialty = "speech"
    /\ Populated("speech")
    /\ task["oncology"].st = "idle"

\* the response holds no parseable {...} object: no '{', no '}', the last '}'
\* before the first '{', or a substring json.loads rejects
NoParseableObject(o) ==
    /\ o.kind = "ok"
    /\ \/ \A i \in DOMAIN o.text : o.text[i].t /= "{"
       \/ \A i \in DOMAIN o.text : o.text[i].t /= "}"
       \/ RFind(o.text, "}") < Find(o.text, "{")
       \/ ~JsonLoads(SubSeq(o.text, Find(o.text, "{"), RFind(o.text, "}"))).ok

\* C14: when the specialty response holds no parseable {...} object the call
\* returns None, and the summary is assembled, passes validation and has no
\* specialty section.
C14_UnparseableSpecialtyIsNone ==
    \A t \in {"oncology", "speech"} :
        (task[t].st = "settled" /\ NoParseableObject(task[t].out)) =>
            /\ task[t].val = None
            /\ Assembled => (presult.path = "validated" /\ ~Populated(t))

\* a summary assembled after an oncology response whose last '}' precedes its
\* first '{'
C14_Witness ==
    /\ Assembled
    /\ task["oncology"].st = "settled"
    /\ task["oncology"].out = Ok(<<Tok("}"), Prose, Tok("{")>>)

\* the object Step 4 built from the values the calls returned
AssembledObject ==
    Assemble(task["cls"].val, task["evo"].val, task["status"].val, task["plan"].val,
             IF task["cls"].val \in {"oncology", "speech"}
             THEN task[task["cls"].val].val ELSE None,
             pctx)

\* the members of the assembled object that are set to something else than None
SetFields(obj) ==
    {k \in DOMAIN obj : k \in {"specialty", "generated_at"} \/ obj[k] /= None}

\* C15 as stated: a validated summary is the assembled object with every None
\* or unset field left out, at the top and inside the specialty section; a
\* summary that failed validation is the assembled object unchanged.
C15_NoneAndUnsetOmitted ==
    Assembled =>
        /\ presult.path = "validated" =>
              /\ DOMAIN presult.json = SetFields(AssembledObject)
              /\ \A t \in {"oncology", "speech"} \cap DOMAIN presult.json :
                    DOMAIN presult.json[t] \subseteq SetFields(AssembledObject[t])
        /\ presult.path = "unvalidated" => presult.json = AssembledObject

\* C15 as amended: a validated summary is the assembled object with every
\* field that is None left out, at the top and inside the specialty section,
\* where only declared fields are kept and an oncology section that did not
\* set tumor_size_trend carries it as the empty list; a summary that failed
\* validation is the assembled object unchanged.
C15_NoneOmittedDefaultsKept ==
    Assembled =>
        /\ presult.path = "validated" =>
              /\ SchemaAccepts(AssembledObject)
              /\ DOMAIN presult.json = SetFields(AssembledObject)
              /\ presult.json.universal = AssembledObject.universal
              /\ presult.json.specialty = AssembledObject.specialty
              /\ \A t \in {"oncology", "speech"} \cap DOMAIN presult.json :
                    LET section == presult.json[t]
                        given == AssembledObject[t]
                        declared == IF t = "oncology" THEN OncologyFields
                                    ELSE SpeechFields
                    IN /\ \A k \in DOMAIN section : section[k] /= None
                       /\ SetFields(given) \cap declared \subseteq DOMAIN section
                       /\ \A k \in DOMAIN section :
                             IF k \in SetFields(given)
                             THEN k = "tumor_size_trend" \/ section[k] = given[k]
                             ELSE k = "tumor_size_trend" /\ section[k] = JList(<<>>)
                       /\ "tumor_size_trend" \in SetFields(given) =>
                             Len(section.tumor_size_trend.list)
                                = Len(given.tumor_size_trend.list)
        /\ presult.path = "unvalidated" =>
              /\ ~SchemaAccepts(AssembledObject)
              /\ presult.json = AssembledObject

\* a validated speech summary whose response had a null member, and (in
\* another run) an unvalidated one
C15_Witness ==
    /\ Assembled
    /\ presult.path = "validated"
    /\ Populated("speech")
    /\ "amplification" \in DOMAIN AssembledObject.speech
    /\ "amplification" \notin DOMAIN presult.json.speech

\* C16: whatever the model responses, the returned object validates against
\* AIResponseSchema.
C16_ReturnedJsonValidates ==
    Returned =>
        /\ {"evolution", "current_status", "plan"} \subseteq DOMAIN presult.json.universal
        /\ SchemaAccepts([oncology |-> Get(presult.json, "oncology", None),
                          speech |-> Get(presult.json, "speech", None)])

\* C17: when every call of the run timed out, the returned object is the
\* top-level fallback: narrative of a failed generation, plan of a manual
\* review, specialty general.
C17_AllTimeoutsGiveFallback ==
    LET Started == {t \in Tasks : task[t].st /= "idle"}
    IN (/\ Returned
        /\ UniversalTasks \subseteq Started
        /\ \A t \in Started : task[t].st = "settled" /\ task[t].out.kind = "timeout") =>
           presult.json = TopLevelFallback("TimeoutError")

\* the placeholder a call returns when its model call timed out
TimeoutPlaceholder(t) ==
    IF t = "cls" THEN "general"
    ELSE IF t = "evo" THEN "Error: Narrative generation timed out"
    ELSE IF t = "status" THEN <<StatusTimedOut>>
    ELSE IF t = "plan" THEN <<PlanTimedOut>>
    ELSE None

\* C18: a call that gets no answer is given up at its timeout and returns its
\* placeholder, and every run of the pipeline eventually returns.
C18_EventuallyReturns ==
    /\ [](\A t \in Tasks :
             (task[t].st = "settled" /\ task[t].out.kind = "timeout") =>
                 task[t].val = TimeoutPlaceholder(t))
    /\ (ppc /= "done") ~> (ppc = "done")

\* a summary assembled in a run where the oncology call was given up
C18_Witness ==
    /\ Assembled
    /\ task["oncology"].st = "settled"
    /\ task["oncology"].out.kind = "timeout"
    /\ task["evo"].out.kind = "ok"

\* C19: the filtered plan is not empty and has at most 5 entries; it is the
\* placeholder alone when no bullet passes; otherwise it holds, in their
\* order, bullets of the plan none of which duplicates a current-status
\* statement, has completion language, or carries a date before the latest
\* date of the context.
C19_PlanFilter ==
    Assembled =>
        LET plan == task["plan"].val
            current_status == task["status"].val
            latest == LatestContextDate(pctx)
            out == presult.json.universal.plan
            Bad(b) == \/ b = <<>>
                      \/ HasCompletionKeywords(b)
                      \/ IsDuplicate(b, current_status)
                      \/ latest /= 0 /\ \E i \in DOMAIN b :
                                           DateOf(b[i]) > 0 /\ DateOf(b[i]) < latest
        IN /\ out /= <<>>
           /\ Len(out) <= 5
           /\ IF \A i \in DOMAIN plan : Bad(plan[i])
              THEN out = << <<"Plan information not available">> >>
              ELSE /\ \A i \in DOMAIN out : ~Bad(out[i])
                   /\ out = FirstN(SelectSeq(plan, LAMBDA b : b \in Range(out)), 5)
                   /\ \A i \in DOMAIN plan : ~Bad(plan[i]) => plan[i] \in Range(out)

\* a plan of four bullets of which the duplicate, the past-dated and the
\* completed one were filtered out
C19_Witness ==
    /\ Assembled
    /\ Len(task["plan"].val) = 4
    /\ task["status"].val = << <<"w1">> >>
    /\ LatestContextDate(pctx) = 2
    /\ presult.json.universal.plan = << <<"w4">> >>

\* C20: in the oncology section of a returned summary, the status of every
\* point of tumor_size_trend is the one its change against the first
\* measurement gives.
C20_TrendStatusFromBaseline ==
    (Returned /\ Populated("oncology")
       /\ "tumor_size_trend" \in DOMAIN presult.json.oncology
       /\ "list" \in DOMAIN presult.json.oncology.tumor_size_trend) =>
        LET trend == presult.json.oncology.tumor_size_trend.list
            \* at least 30% less than the first, at least 20% more, or neither
            ExpectedStatus(first, size_cm) ==
                IF 100 * (first - size_cm) >= 30 * first
                THEN {"IMPROVING", "PARTIAL RESPONSE"}
                ELSE IF 100 * (size_cm - first) >= 20 * first
                THEN {"WORSENING", "PROGRESSIVE DISEASE"}
                ELSE {"STABLE"}
        IN \A i \in DOMAIN trend :
              trend[i].status \in ExpectedStatus(trend[1].size_cm, trend[i].size_cm)

\* C29: a plan bullet is discarded only when it repeats a current-status
\* statement, has completion language or is dated before the latest date of
\* the context; a current-status entry without text (a bare '-' line) makes
\* no other plan bullet disappear.
C29_DiscardedOnlyForAReason ==
    Assembled =>
        LET plan == task["plan"].val
            current_status == task["status"].val
            out == presult.json.universal.plan
            DuplicatesStatement(b) ==
                \E n \in DOMAIN current_status :
                    /\ current_status[n] /= <<>>
                    /\ \/ IsSubstring(Lower(b), Lower(current_status[n]))
                       \/ IsSubstring(Lower(current_status[n]), Lower(b))
        IN \A i \in DOMAIN plan :
              (/\ plan[i] /= <<>>
               /\ ~HasCompletionKeywords(plan[i])
               /\ ~IsPastDated(plan[i], LatestContextDate(pctx))
               /\ ~DuplicatesStatement(plan[i])) =>
                  plan[i] \in Range(out)

\* ------------------------------------------------------- the fallback ladder
\* the rungs of the ladder of the run, in order
Rungs ==
    LET rung(model_name, use_cpu, ctx) ==
            [model |-> model_name, use_cpu |-> use_cpu, ctx |-> ctx]
    IN <<rung(LLM_MODEL_NAME, FALSE, gen.joined), rung(LLM_MODEL_NAME, TRUE, gen.joined)>>
       \o [i \in DOMAIN gen.fallback_models |->
              rung(gen.fallback_models[i], FALSE, gen.joined)]
       \o <<rung(LLM_MODEL_NAME, FALSE, Reduced(gen.joined))>>

LastAttempt == gen.attempts[Len(gen.attempts)]

\* C23: the attempts made are always a prefix of the ladder: primary model on
\* the GPU, primary model on the CPU with a smaller context window, each
\* fallback model in list order, primary model with the reduced context. Only
\* the last attempt made can have succeeded, and then the run returns its
\* text; when the whole ladder failed the run ends in the fatal error.
C23_AttemptsArePrefixOfLadder ==
    LET a == gen.attempts
    IN /\ Len(a) <= Len(Rungs)
       /\ \A i \in DOMAIN a :
             /\ a[i].model = Rungs[i].model
             /\ a[i].use_cpu = Rungs[i].use_cpu
             /\ a[i].ctx = Rungs[i].ctx
             /\ i < Len(a) => ~a[i].ok
       /\ Len(a) >= 2 => a[2].num_ctx < a[1].num_ctx
       /\ (a /= <<>> /\ LastAttempt.ok) <=> gen.result.kind = "return"
       /\ gen.result.kind = "return" => gen.result.text = LastAttempt.text
       /\ (Len(a) = Len(Rungs) /\ ~LastAttempt.ok) =>
             /\ gen.result.kind = "raise"
             /\ gen.result.detail = "Generation GPU error; all fallbacks failed"
       /\ gen.pc = "done" <=> gen.result.kind /= "none"

\* a run that got its text from the second of three fallback models
C23_Witness ==
    /\ gen.pc = "done"
    /\ gen.fallback_models = DefaultFallbacks
    /\ Len(gen.attempts) = 4
    /\ gen.result.kind = "return"
    /\ gen.result.text = <<"answer2">>

\* C24: when the primary attempt fails with an error text that has none of
\* 'cuda', 'oom', 'memory', 'terminated', that attempt is the only one made
\* and the run ends at once in the generation error carrying that text.
C24_NonResourceFailureSurfacedAtOnce ==
    (/\ gen.attempts /= <<>>
     /\ ~gen.attempts[1].ok
     /\ \A i \in DOMAIN gen.primary :
           gen.primary[i] \notin {"cuda", "CUDA", "oom", "OOM", "memory", "terminated"}) =>
        /\ Len(gen.attempts) = 1
        /\ gen.pc = "done"
        /\ gen.result = GenRaise("Generation error", gen.primary)

\* a run ended by a network failure of the primary attempt
C24_Witness ==
    /\ gen.pc = "done"
    /\ gen.primary = <<"network:", "refused">>
    /\ gen.result.kind = "raise"
    /\ Len(gen.attempts) = 1

\* C25: the context of the last-resort attempt is the trailing half of the
\* context: it ends where the context ends, has about half its length, and is
\* strictly shorter than the context whenever that is not empty.
C25_ReducedIsTrailingHalf ==
    Len(gen.attempts) = Len(Rungs) =>
        LET ctx == LastAttempt.ctx
            L == SpanLen(gen.joined)
        IN /\ ctx.to = gen.joined.to
           /\ 2 * SpanLen(ctx) \in {L - 1, L, L + 1}
           /\ L > 0 => SpanLen(ctx) < L

\* C28: every fragment cited with an answer was in full in the context sent
\* to the model for that answer: no cited fragment is cut by the trim of the
\* context to its last 18000 characters.
C28_CitedFragmentsSentInFull ==
    (gen.fn = "_answer_question" /\ gen.result.kind = "return") =>
        \A i \in DOMAIN gen.context_chunks :
            LET c == ChunkSpan(gen.context_chunks, i)
            IN LastAttempt.ctx.from <= c.from /\ c.to <= LastAttempt.ctx.to

\* ------------------------------------------------------------- validation
\* C21: a candidate that validation does not reject has the universal section
\* with all three of evolution, current_status and plan present: validation
\* rejects a candidate without universal or with a universal that lacks one
\* of the three keys.
C21_MissingUniversalKeyRejected ==
    validation.pc \in {"validated", "serialized", "revalidated"} =>
        /\ "universal" \in DOMAIN validation.candidate
        /\ {"evolution", "current_status", "plan"} \subseteq DOMAIN validation.candidate.universal

\* C22: validating the serialized form of a validated summary succeeds and
\* gives that summary back; the serialized form has no None and names every
\* audiogram threshold by its field name.
C22_RevalidationLossless ==
    /\ validation.pc \in {"serialized", "revalidated"} =>
          /\ \A k \in DOMAIN validation.json : validation.json[k] /= None
          /\ ("speech" \in DOMAIN validation.json /\ "audiogram" \in DOMAIN validation.json.speech) =>
                \A ear \in {"left", "right"} \cap DOMAIN validation.json.speech.audiogram :
                    /\ DOMAIN validation.json.speech.audiogram[ear] \subseteq AudiogramFrequencyFields
                    /\ \A f \in DOMAIN validation.json.speech.audiogram[ear] :
                          validation.json.speech.audiogram[ear][f] /= None
    /\ validation.pc = "revalidated" => (validation.v2 /= Invalid /\ validation.v2 = validation.v)

\* a summary revalidated whose left-ear thresholds came under '500Hz' and
\* '1000Hz'
C22_Witness ==
    /\ validation.pc = "revalidated"
    /\ "speech" \in DOMAIN validation.candidate
    /\ validation.candidate.speech /= None
    /\ "audiogram" \in DOMAIN validation.candidate.speech
    /\ "1000Hz" \in DOMAIN validation.candidate.speech.audiogram.left
    /\ validation.v.speech.audiogram.left.freq_1000hz = JNum(35)
    /\ validation.v2.speech.audiogram.left.freq_500hz = JNum(20)

\* ------------------------------------------------------------ persistence
\* the summarize requests whose upsert was committed, oldest first
Commits == SelectSeq(log, LAMBDA e : e.ev = "summarize" /\ e.committed)

\* C26: whatever the interleaving of the summarize requests, the patient's
\* row, if any, has the summary text and the citations of one and the same
\* request, the one whose upsert was committed last (the row is keyed by
\* patient_id, so there is never more than one).
C26_RowOfLastCommit ==
    IF Commits = <<>> THEN patient_summaries \in {NoRow, LegacyRow}
    ELSE LET w == Commits[Len(Commits)].c
         IN /\ patient_summaries.present
            /\ patient_summaries.summary_text = clients[w].response_data
            /\ patient_summaries.citations = clients[w].citations
            /\ patient_summaries.citations.by = w
            /\ patient_summaries.summary_text.citations.by = w

\* request 2 generated and committed while request 1 was between its model
\* calls and its upsert, and request 1 committed after it over the older row
C26_Witness ==
    /\ Len(Commits) = 2
    /\ Commits[1].c = 2
    /\ Commits[2].c = 1
    /\ patient_summaries.citations.by = 1
    /\ clients[1].response_data /= clients[2].response_data

\* C27: a fetch that follows a summarize request that returned its summary,
\* with no write to the row in between, returns 200 with that summary, its
\* citations and the generated_at set when that summary was stored, also
\* when the upsert of the summarize request failed.
C27_FetchReturnsReturnedSummary ==
    \A i, j \in DOMAIN log :
        (/\ i < j
         /\ log[i].ev = "summarize"
         /\ log[j].ev = "select"
         /\ \A k \in (i + 1)..(j - 1) : ~log[k].committed
         /\ clients[log[j].c].pc = "done") =>
            /\ clients[log[j].c].status = 200
            /\ clients[log[j].c].row.summary_text = clients[log[i].c].response_data
            /\ clients[log[j].c].citations = clients[log[i].c].citations
            /\ clients[log[j].c].row.generated_at = i

\* C30: whatever the interleaving of fetch and summarize requests, the
\* citations of the row are the ones written with its summary text: the
\* citation upgrade of a fetch never replaces the citations of a summary
\* committed after the fetch read the row.
C30_CitationsOfPersistedSummary ==
    patient_summaries.present =>
        /\ patient_summaries.citations.by = patient_summaries.summary_text.citations.by
        /\ patient_summaries.citations.chunks = patient_summaries.summary_text.citations.chunks

====
